---- MODULE Spec2Model ----
(***************************************************************************)
(* Momentum statistics and key-moment detection of the tennis momentum     *)
(* visualizer: src/src/utils.py and src/src/data_processor.py.             *)
(*                                                                         *)
(* Numbers that pandas/numpy hold as floats are modelled as exact          *)
(* rationals <<num, den>> with den > 0; <<0, 0>> is NaN (a null cell, the  *)
(* result of 0/0, the mean/max/median of an empty series).                 *)
(***************************************************************************)
EXTENDS Integers, Sequences, FiniteSets, TLC

VARIABLES frame, score_result, match_data, key_moments,
          seconds, time_text, parsed,
          momentum_series, consistency,
          config_file, config, config_use,
          pandas_frame, set_stats, frame_result,
          analyzer, disk, analyzer_result,
          pc, session, run

statsVars == <<frame, score_result, match_data, key_moments>>

timeVars == <<seconds, time_text, parsed>>

seriesVars == <<momentum_series, consistency>>

configVars == <<config_file, config, config_use>>

directVars == <<pandas_frame, set_stats, frame_result>>

analyzerVars == <<analyzer, disk, analyzer_result>>

sessionVars == <<pc, session, run>>

restVars == <<directVars, analyzerVars, sessionVars>>

vars == <<statsVars, timeVars, seriesVars, configVars, restVars>>

(***************************************************************************)
(* Bounds of the model                                                     *)
(***************************************************************************)
MaxPoints == 4

MaxScoreRows == 2

MaxSeconds == 36700

MaxTextLen == 4

MaxElapsedRows == 3

MaxSeriesLen == 6

MaxDirectRows == 2

MaxBreakdownRows == 2

MaxFrameRows == 3

MaxDirs == 3

(***************************************************************************)
(* Float arithmetic as numpy/pandas perform it                             *)
(***************************************************************************)
NaN == <<0, 0>>

F(n) == <<n, 1>>

IsNaN(a) == a[2] = 0

FGt(a, b) == ~IsNaN(a) /\ ~IsNaN(b) /\ a[1] * b[2] > b[1] * a[2]

FEq(a, b) == ~IsNaN(a) /\ ~IsNaN(b) /\ a[1] * b[2] = b[1] * a[2]

FSub(a, b) == IF IsNaN(a) \/ IsNaN(b) THEN NaN ELSE <<a[1] * b[2] - b[1] * a[2], a[2] * b[2]>>

FMul(a, b) == IF IsNaN(a) \/ IsNaN(b) THEN NaN ELSE <<a[1] * b[1], a[2] * b[2]>>

FAbs(a) == IF a[1] < 0 THEN <<0 - a[1], a[2]>> ELSE a

\* numpy true division count / n: 0/0 is nan (with a RuntimeWarning), never an exception
FDivInt(count, n) == IF n = 0 THEN NaN ELSE <<count, n>>

(***************************************************************************)
(* pandas Series operations                                                *)
(***************************************************************************)
Column(rows, name) == [i \in 1..Len(rows) |-> rows[i][name]]

SeriesSub(a, b) == [i \in 1..Len(a) |-> FSub(a[i], b[i])]

\* variant: the first difference is taken against 0 instead of being undefined
SeriesDiffFromZero(s) == [i \in 1..Len(s) |-> IF i = 1 THEN s[1] ELSE FSub(s[i], s[i - 1])]

SeriesDiff(s) == [i \in 1..Len(s) |-> IF i = 1 THEN NaN ELSE FSub(s[i], s[i - 1])]

SeriesAbs(s) == [i \in 1..Len(s) |-> FAbs(s[i])]

SeriesFillNa(s, v) == [i \in 1..Len(s) |-> IF IsNaN(s[i]) THEN v ELSE s[i]]

DropNa(s) == SelectSeq(s, LAMBDA x : ~IsNaN(x))

RECURSIVE InsertSorted(_, _)
InsertSorted(x, s) ==
    IF s = <<>> THEN <<x>>
    ELSE IF FGt(x, Head(s)) THEN <<Head(s)>> \o InsertSorted(x, Tail(s))
    ELSE <<x>> \o s

RECURSIVE SortSeries(_)
SortSeries(s) == IF s = <<>> THEN <<>> ELSE InsertSorted(Head(s), SortSeries(Tail(s)))

\* Series.median(): NaN cells are skipped; an even count averages the two middle values
SeriesMedian(s) ==
    LET v == SortSeries(DropNa(s))
        n == Len(v)
    IN  IF n = 0 THEN NaN
        ELSE IF n % 2 = 1 THEN v[(n + 1) \div 2]
        ELSE <<v[n \div 2][1] * v[n \div 2 + 1][2] + v[n \div 2 + 1][1] * v[n \div 2][2],
               2 * v[n \div 2][2] * v[n \div 2 + 1][2]>>

RECURSIVE SeriesSum(_)
SeriesSum(s) ==
    IF s = <<>> THEN F(0)
    ELSE LET r == SeriesSum(Tail(s))
         IN  <<Head(s)[1] * r[2] + r[1] * Head(s)[2], Head(s)[2] * r[2]>>

\* Series.mean(): NaN for an empty series
SeriesMean(s) ==
    LET v == DropNa(s)
        t == SeriesSum(v)
    IN  IF Len(v) = 0 THEN NaN ELSE <<t[1], t[2] * Len(v)>>

\* variant: the smallest value is taken where the largest is meant
SeriesMaxAsMin(s) ==
    LET v == DropNa(s)
    IN  IF Len(v) = 0 THEN NaN
        ELSE v[CHOOSE i \in 1..Len(v) : \A j \in 1..Len(v) : ~FGt(v[i], v[j])]

\* Series.max() / Series.min(): NaN for an empty series
SeriesMax(s) ==
    LET v == DropNa(s)
    IN  IF Len(v) = 0 THEN NaN
        ELSE v[CHOOSE i \in 1..Len(v) :
                 /\ \A j \in 1..Len(v) : ~FGt(v[j], v[i])
                 /\ \A j \in 1..(i - 1) : FGt(v[i], v[j])]

SeriesMin(s) ==
    LET v == DropNa(s)
    IN  IF Len(v) = 0 THEN NaN
        ELSE v[CHOOSE i \in 1..Len(v) :
                 /\ \A j \in 1..Len(v) : ~FGt(v[i], v[j])
                 /\ \A j \in 1..(i - 1) : FGt(v[j], v[i])]

\* (boolean Series).sum()
CountTrue(b) == Cardinality({i \in 1..Len(b) : b[i]})

(***************************************************************************)
(* utils.py: time parsing                                                  *)
(***************************************************************************)
Digits == <<"0", "1", "2", "3", "4", "5", "6", "7", "8", "9">>

IsDigit(c) == \E d \in 1..10 : Digits[d] = c

DigitValue(c) == (CHOOSE d \in 1..10 : Digits[d] = c) - 1

\* str.split(":") on a string held as a sequence of characters
RECURSIVE SplitColon(_)
SplitColon(s) ==
    IF s = <<>> THEN << <<>> >>
    ELSE IF Head(s) = ":" THEN << <<>> >> \o SplitColon(Tail(s))
    ELSE LET rest == SplitColon(Tail(s))
         IN  << <<Head(s)>> \o Head(rest) >> \o Tail(rest)

\* int(field) succeeds on a non-empty run of decimal digits
IsNumeric(field) == field # <<>> /\ \A i \in 1..Len(field) : IsDigit(field[i])

RECURSIVE IntOf(_)
IntOf(field) ==
    IF field = <<>> THEN 0
    ELSE 10 * IntOf(SubSeq(field, 1, Len(field) - 1)) + DigitValue(field[Len(field)])

parse_time_to_seconds(time_str) ==
    LET parts == SplitColon(time_str)
    IN  IF Len(parts) = 3
        THEN IF \A i \in 1..3 : IsNumeric(parts[i])
             THEN IntOf(parts[1]) * 3600 + IntOf(parts[2]) * 60 + IntOf(parts[3])
             ELSE 0
        ELSE IF Len(parts) = 2
        THEN IF \A i \in 1..2 : IsNumeric(parts[i])
             THEN IntOf(parts[1]) * 60 + IntOf(parts[2])
             ELSE 0
        ELSE IF IsNumeric(parts[1]) THEN IntOf(parts[1]) ELSE 0

RECURSIVE DecimalDigits(_)
DecimalDigits(n) ==
    IF n < 10 THEN <<Digits[n + 1]>>
    ELSE DecimalDigits(n \div 10) \o <<Digits[(n % 10) + 1]>>

\* the format specs 01d and 02d: decimal digits, zero-padded on the left to the width
RECURSIVE ZeroPad(_, _)
ZeroPad(digits, width) ==
    IF Len(digits) >= width THEN digits ELSE ZeroPad(<<"0">> \o digits, width)

\* variant: the minutes are not reduced modulo the hour
format_time_total_minutes(secs) ==
    ZeroPad(DecimalDigits(secs \div 3600), 1) \o <<":">>
    \o ZeroPad(DecimalDigits(secs \div 60), 2) \o <<":">>
    \o ZeroPad(DecimalDigits(secs % 60), 2)

format_time(secs) ==
    ZeroPad(DecimalDigits(secs \div 3600), 1) \o <<":">>
    \o ZeroPad(DecimalDigits((secs % 3600) \div 60), 2) \o <<":">>
    \o ZeroPad(DecimalDigits(secs % 60), 2)

\* a null ElapsedTime cell: None after to_pandas(), which has no split()
NullText == <<"None">>

(***************************************************************************)
(* utils.py: match score                                                   *)
(***************************************************************************)
Raised(exc) == [status |-> "raised", exception |-> exc]

NotCalled == [status |-> "not_called"]

FallbackScore ==
    [status |-> "returned", final_score |-> "Score unavailable", winner |-> "Unknown",
     p1_sets |-> 0, p2_sets |-> 0]

RECURSIVE SortedAscending(_)
SortedAscending(S) ==
    IF S = {} THEN <<>>
    ELSE LET m == CHOOSE x \in S : \A y \in S : x <= y
         IN  <<m>> \o SortedAscending(S \ {m})

SetNumbers(rows) == {rows[i].SetNo : i \in 1..Len(rows)}

\* the rows of one group, in row order
RowsOfSet(rows, set_no) == SelectSeq(rows, LAMBDA r : r.SetNo = set_no)

\* group_by("SetNo").agg([... .last() ...]).sort("SetNo")
GroupLastSorted(rows) ==
    LET order == SortedAscending(SetNumbers(rows))
    IN  [k \in 1..Len(order) |->
            LET g == RowsOfSet(rows, order[k])
            IN  [SetNo |-> order[k], P1Games |-> g[Len(g)].P1GamesWon,
                 P2Games |-> g[Len(g)].P2GamesWon]]

\* int(x): truncation; int(None) and int(nan) raise
IntTrunc(a) == a[1] \div a[2]

RECURSIVE JoinComma(_)
JoinComma(strs) ==
    IF strs = <<>> THEN ""
    ELSE IF Len(strs) = 1 THEN strs[1]
    ELSE strs[1] \o ", " \o JoinComma(Tail(strs))

SetScore(s) == ToString(IntTrunc(s.P1Games)) \o "-" \o ToString(IntTrunc(s.P2Games))

\* the else branch also takes the match with equal set counts
Winner(df, p1_sets, p2_sets) == IF p1_sets > p2_sets THEN df.player1 ELSE df.player2

calculate_match_score(df_lazy) ==
    IF df_lazy.kind # "LazyFrame" THEN Raised("AttributeError")
    ELSE IF ~({"SetNo", "P1GamesWon", "P2GamesWon"} \subseteq df_lazy.columns) THEN FallbackScore
    ELSE LET sets == GroupLastSorted(df_lazy.rows)
             idx == 1..Len(sets)
         IN  IF \E k \in idx : IsNaN(sets[k].P1Games) \/ IsNaN(sets[k].P2Games) THEN FallbackScore
             ELSE IF df_lazy.rows = <<>> THEN FallbackScore
             ELSE LET p1_sets == Cardinality({k \in idx : FGt(sets[k].P1Games, sets[k].P2Games)})
                      p2_sets == Cardinality({k \in idx : FGt(sets[k].P2Games, sets[k].P1Games)})
                  IN  [status |-> "returned",
                       final_score |-> JoinComma([k \in idx |-> SetScore(sets[k])]),
                       winner |-> Winner(df_lazy, p1_sets, p2_sets),
                       p1_sets |-> p1_sets, p2_sets |-> p2_sets]

(***************************************************************************)
(* data_processor.py: statistics                                           *)
(***************************************************************************)
EmptyDict == [k \in {} |-> 0]

Indices(n) == [i \in 1..n |-> i]

\* variant: a non-strict comparison, which counts a tied point for both sides
DominantPointsWithTies(a, b) == CountTrue([i \in 1..Len(a) |-> ~FGt(b[i], a[i])])

\* (a > b).sum(): strict, a point with equal values is counted for neither side
DominantPoints(a, b) == CountTrue([i \in 1..Len(a) |-> FGt(a[i], b[i])])

\* variant: the fillna(0) is left out, so the first point's change stays NaN
SwingSeriesNoFill(momentum_diff) == SeriesAbs(SeriesDiff(momentum_diff))

\* abs(momentum_diff.diff()).fillna(0): the first point's change is 0
SwingSeries(momentum_diff) == SeriesFillNa(SeriesAbs(SeriesDiff(momentum_diff)), F(0))

\* (count / len(df)) * 100
DominancePct(count, n) == FMul(FDivInt(count, n), F(100))

_calculate_momentum_stats(df) ==
    IF ~({"P1Momentum", "P2Momentum"} \subseteq df.columns) THEN EmptyDict
    ELSE LET p1 == Column(df.rows, "P1Momentum")
             p2 == Column(df.rows, "P2Momentum")
             momentum_swings == SwingSeries(SeriesSub(p1, p2))
             median == SeriesMedian(momentum_swings)
             p1_dominant_points == DominantPoints(p1, p2)
             p2_dominant_points == DominantPoints(p2, p1)
         IN  [p1_avg_momentum |-> SeriesMean(p1),
              p2_avg_momentum |-> SeriesMean(p2),
              p1_max_momentum |-> SeriesMax(p1),
              p2_max_momentum |-> SeriesMax(p2),
              p1_min_momentum |-> SeriesMin(p1),
              p2_min_momentum |-> SeriesMin(p2),
              momentum_swings |->
                  CountTrue([i \in 1..Len(momentum_swings) |-> FGt(momentum_swings[i], median)]),
              p1_dominant_points |-> p1_dominant_points,
              p2_dominant_points |-> p2_dominant_points,
              p1_dominance_pct |-> DominancePct(p1_dominant_points, Len(df.rows)),
              p2_dominance_pct |-> DominancePct(p2_dominant_points, Len(df.rows))]

\* variant: the games of a frame without games-won columns default to 0
SetInfoGamesDefaultZero(df, set_no) ==
    LET set_df == RowsOfSet(df.rows, set_no)
        secs == [i \in 1..Len(set_df) |-> F(set_df[i].cumulative_seconds)]
        games == IF {"P1GamesWon", "P2GamesWon"} \subseteq df.columns
                 THEN [p1_games |-> IntTrunc(set_df[Len(set_df)].P1GamesWon),
                       p2_games |-> IntTrunc(set_df[Len(set_df)].P2GamesWon)]
                 ELSE [p1_games |-> 0, p2_games |-> 0]
        momentum == IF {"P1Momentum", "P2Momentum"} \subseteq df.columns
                    THEN [p1_avg_momentum |-> SeriesMean(Column(set_df, "P1Momentum")),
                          p2_avg_momentum |-> SeriesMean(Column(set_df, "P2Momentum"))]
                    ELSE EmptyDict
    IN  momentum @@ games @@
        [set_number |-> set_no,
         points_played |-> Len(set_df),
         duration |-> IF "cumulative_seconds" \in df.columns
                      THEN FSub(SeriesMax(secs), SeriesMin(secs))
                      ELSE F(0)]

SetInfo(df, set_no) ==
    LET set_df == RowsOfSet(df.rows, set_no)
        secs == [i \in 1..Len(set_df) |-> F(set_df[i].cumulative_seconds)]
        games == IF {"P1GamesWon", "P2GamesWon"} \subseteq df.columns
                 THEN [p1_games |-> IntTrunc(set_df[Len(set_df)].P1GamesWon),
                       p2_games |-> IntTrunc(set_df[Len(set_df)].P2GamesWon)]
                 ELSE EmptyDict
        momentum == IF {"P1Momentum", "P2Momentum"} \subseteq df.columns
                    THEN [p1_avg_momentum |-> SeriesMean(Column(set_df, "P1Momentum")),
                          p2_avg_momentum |-> SeriesMean(Column(set_df, "P2Momentum"))]
                    ELSE EmptyDict
    IN  momentum @@ games @@
        [set_number |-> set_no,
         points_played |-> Len(set_df),
         duration |-> IF "cumulative_seconds" \in df.columns
                      THEN FSub(SeriesMax(secs), SeriesMin(secs))
                      ELSE F(0)]

\* int(nan) on a null games-won cell raises inside the try: the whole breakdown is dropped
_calculate_set_breakdown(df) ==
    IF "SetNo" \notin df.columns THEN EmptyDict
    ELSE LET order == SortedAscending(SetNumbers(df.rows))
             fails == /\ {"P1GamesWon", "P2GamesWon"} \subseteq df.columns
                      /\ \E k \in 1..Len(order) :
                             LET g == RowsOfSet(df.rows, order[k])
                             IN  IsNaN(g[Len(g)].P1GamesWon) \/ IsNaN(g[Len(g)].P2GamesWon)
         IN  IF fails THEN [set_breakdown |-> <<>>, total_sets |-> 0]
             ELSE [set_breakdown |-> [k \in 1..Len(order) |-> SetInfo(df, order[k])],
                   total_sets |-> Len(order)]

\* the try/except around calculate_match_score turns every exception into the fallback
_calculate_match_statistics(df_polars, df, x_label, animation_type) ==
    LET secs == [i \in 1..Len(df.rows) |-> F(df.rows[i].cumulative_seconds)]
        called == calculate_match_score(df_polars)
        score == IF called.status = "raised" THEN FallbackScore ELSE called
    IN  _calculate_set_breakdown(df) @@ _calculate_momentum_stats(df) @@
        [final_score |-> score.final_score, winner |-> score.winner,
         p1_sets |-> score.p1_sets, p2_sets |-> score.p2_sets,
         total_points |-> Len(df.rows),
         match_duration |-> IF "cumulative_seconds" \in df.columns THEN SeriesMax(secs) ELSE F(0),
         player1_name |-> IF df.rows # <<>> THEN df.player1 ELSE "Player 1",
         player2_name |-> IF df.rows # <<>> THEN df.player2 ELSE "Player 2",
         x_label |-> x_label,
         animation_type |-> animation_type]

\* pd.to_numeric(errors="coerce") keeps numbers and turns anything else into NaN
ToNumeric(v) == IF IsNaN(v) THEN NaN ELSE v

ProcessedRow(r, animation_type) ==
    LET secs == parse_time_to_seconds(r.ElapsedTime)
    IN  [cumulative_seconds |-> secs,
         P1Momentum |-> IF IsNaN(ToNumeric(r.P1Momentum)) THEN F(0) ELSE ToNumeric(r.P1Momentum),
         P2Momentum |-> IF IsNaN(ToNumeric(r.P2Momentum)) THEN F(0) ELSE ToNumeric(r.P2Momentum),
         x_axis |-> IF animation_type = "Time-based" THEN secs ELSE r.PointNumber] @@ r

\* df.to_pandas(): a pandas frame that is a new object, not the polars table
to_pandas(df) ==
    [object |-> "copy",
     value |-> [kind |-> "pandas", columns |-> df.columns, player1 |-> df.player1,
                player2 |-> df.player2, rows |-> df.rows]]

\* the content of the object a call received, once the call has assigned written to
\* the object named by target
InputAfter(df, target, written) == IF target.object = "input" THEN written ELSE df

process_match_data(df, animation_type) ==
    IF df.kind # "DataFrame" THEN Raised("AttributeError")
    ELSE IF ~({"ElapsedTime", "PointNumber", "P1Momentum", "P2Momentum"} \subseteq df.columns)
    THEN Raised("KeyError")
    ELSE IF \E i \in 1..Len(df.rows) : df.rows[i].ElapsedTime = NullText
    THEN Raised("AttributeError")
    ELSE LET target == to_pandas(df)
             df_pandas ==
                 [target.value EXCEPT
                     !.columns = @ \cup {"cumulative_seconds", "x_axis"},
                     !.rows = [i \in 1..Len(df.rows) |-> ProcessedRow(df.rows[i], animation_type)]]
             x_label == IF animation_type = "Time-based" THEN "Elapsed Time (seconds)"
                        ELSE "Point Number"
         IN  [status |-> "returned",
              df |-> df_pandas,
              stats |-> _calculate_match_statistics(df, df_pandas, x_label, animation_type),
              input_after |-> InputAfter(df, target, df_pandas)]

(***************************************************************************)
(* data_processor.py: key moments                                          *)
(***************************************************************************)
\* momentum_diff.diff().abs(): the first point's change stays NaN
ChangeSeries(momentum_diff) == SeriesAbs(SeriesDiff(momentum_diff))

\* variant: the threshold scales the change instead of the median
SignificantShiftsScaledChange(momentum_change, threshold) ==
    SelectSeq(Indices(Len(momentum_change)),
              LAMBDA i : FGt(FMul(momentum_change[i], threshold), SeriesMedian(momentum_change)))

\* rows where momentum_change > momentum_change.median() * threshold, in row order
SignificantShifts(momentum_change, threshold) ==
    LET bar == FMul(SeriesMedian(momentum_change), threshold)
    IN  SelectSeq(Indices(Len(momentum_change)), LAMBDA i : FGt(momentum_change[i], bar))

\* variant: only the first row attaining the maximum (idxmax)
PeakRowsFirstOnly(series) ==
    SelectSeq(Indices(Len(series)),
              LAMBDA i : /\ FEq(series[i], SeriesMax(series))
                         /\ \A j \in 1..(i - 1) : ~FEq(series[j], SeriesMax(series)))

\* rows where the series equals its maximum, in row order
PeakRows(series) ==
    SelectSeq(Indices(Len(series)), LAMBDA i : FEq(series[i], SeriesMax(series)))

\* row.get(name, default)
RowGet(df, i, name, default) == IF name \in df.columns THEN df.rows[i][name] ELSE default

\* variant: the record carries the change of the point before
ShiftRecordOfPreviousChange(df, momentum_change, i) ==
    [point_number |-> RowGet(df, i, "PointNumber", i - 1),
     time |-> RowGet(df, i, "cumulative_seconds", 0),
     momentum_change |-> momentum_change[i - 1],
     p1_momentum |-> df.rows[i].P1Momentum,
     p2_momentum |-> df.rows[i].P2Momentum]

\* the record appended to momentum_shifts for the row at position i
ShiftRecord(df, momentum_change, i) ==
    [point_number |-> RowGet(df, i, "PointNumber", i - 1),
     time |-> RowGet(df, i, "cumulative_seconds", 0),
     momentum_change |-> momentum_change[i],
     p1_momentum |-> df.rows[i].P1Momentum,
     p2_momentum |-> df.rows[i].P2Momentum]

HasEitherMomentumColumn(df) == "P1Momentum" \in df.columns \/ "P2Momentum" \in df.columns

\* "P1Momentum" in df.columns and "P2Momentum" in df.columns
HasMomentumColumns(df) == "P1Momentum" \in df.columns /\ "P2Momentum" \in df.columns

identify_key_moments(df, threshold) ==
    IF ~HasMomentumColumns(df)
    THEN [momentum_shifts |-> <<>>, peak_moments |-> <<>>, turning_points |-> <<>>]
    ELSE LET p1 == Column(df.rows, "P1Momentum")
             p2 == Column(df.rows, "P2Momentum")
             momentum_change == ChangeSeries(SeriesSub(p1, p2))
             significant_shifts == SignificantShifts(momentum_change, threshold)
             p1_peaks == PeakRows(p1)
             p2_peaks == PeakRows(p2)
         IN  [momentum_shifts |->
                  [k \in 1..Len(significant_shifts) |->
                      ShiftRecord(df, momentum_change, significant_shifts[k])],
              peak_moments |->
                  [k \in 1..Len(p1_peaks) |->
                      [player |-> IF "player1" \in df.columns THEN df.player1 ELSE "Player 1",
                       point_number |-> RowGet(df, p1_peaks[k], "PointNumber", p1_peaks[k] - 1),
                       momentum |-> p1[p1_peaks[k]]]]
                  \o
                  [k \in 1..Len(p2_peaks) |->
                      [player |-> IF "player2" \in df.columns THEN df.player2 ELSE "Player 2",
                       point_number |-> RowGet(df, p2_peaks[k], "PointNumber", p2_peaks[k] - 1),
                       momentum |-> p2[p2_peaks[k]]]],
              turning_points |-> <<>>]

(***************************************************************************)
(* data_processor.py: consistency score                                    *)
(***************************************************************************)
\* a boolean Series seen as numbers by median()
BoolSeries(b) == [i \in 1..Len(b) |-> IF b[i] THEN F(1) ELSE F(0)]

\* (player > opponent).median(): the median of the comparison, not its mean
AheadRatio(player, opponent) ==
    SeriesMedian(BoolSeries([i \in 1..Len(player) |-> FGt(player[i], opponent[i])]))

AboveOwnAvg(player) ==
    SeriesMedian(BoolSeries([i \in 1..Len(player) |-> FGt(player[i], SeriesMedian(player))]))

\* the square of Series.std() (ddof = 1): NaN below two values
SampleVariance(s) ==
    LET n == Len(s)
        sum == SeriesSum(s)[1]
        squares == SeriesSum([i \in 1..n |-> F(s[i][1] * s[i][1])])[1]
    IN  IF n < 2 THEN NaN ELSE <<n * squares - sum * sum, n * (n - 1)>>

RECURSIVE ISqrtBetween(_, _, _)
ISqrtBetween(x, lo, hi) ==
    LET mid == (lo + hi + 1) \div 2
    IN  IF lo = hi THEN lo
        ELSE IF mid * mid <= x THEN ISqrtBetween(x, mid, hi)
        ELSE ISqrtBetween(x, lo, mid - 1)

\* floor of the square root, for x below 2^30
ISqrt(x) == ISqrtBetween(x, 0, 32767)

\* player.iloc[: n // 5]
EarlySegment(player) == SubSeq(player, 1, Len(player) \div 5)

\* -n // 5 is (-n) // 5, the floor of -n/5
NegatedFloorDiv5(n) == 0 - ((n + 4) \div 5)

\* player.iloc[-n // 5 :]
LateSegment(player) ==
    LET n == Len(player)
        start == NegatedFloorDiv5(n)
    IN  IF start = 0 THEN player ELSE SubSeq(player, n + start + 1, n)

\* min(max(x, 0), 1): a NaN passes through both comparisons
Clamp01(x) ==
    IF IsNaN(x) THEN NaN
    ELSE IF x[1] < 0 THEN F(0)
    ELSE IF x[1] > x[2] THEN F(1)
    ELSE x

\* x / (range_ + epsilon) in thousandths, rounded down; with range_ = 0 the series
\* is constant and x is 0, with range_ >= 1 the epsilon of 1e-6 shifts the quotient
\* by less than one part in a million and is left out
OverRangeMilli(x_num, x_den, range_) ==
    IF range_ = 0 THEN 0 ELSE (1000 * x_num) \div (x_den * range_)

Milli(x) == (1000 * x[1]) \div x[2]

calculate_momentum_consistency(player, opponent) ==
    LET ahead_ratio == AheadRatio(player, opponent)
        above_own_avg == AboveOwnAvg(player)
        variance == SampleVariance(player)
        range_ == FSub(SeriesMax(player), SeriesMin(player))
        std_milli == ISqrt((1000000 * variance[1]) \div variance[2])
        stability == IF IsNaN(variance) \/ IsNaN(range_) THEN NaN
                     ELSE <<1000 - OverRangeMilli(std_milli, 1000, range_[1]), 1000>>
        early_avg == SeriesMedian(EarlySegment(player))
        late_avg == SeriesMedian(LateSegment(player))
        rise == FSub(late_avg, early_avg)
        growth_score == IF IsNaN(rise) \/ IsNaN(range_) THEN NaN
                        ELSE Clamp01(<<OverRangeMilli(rise[1], rise[2], range_[1]), 1000>>)
        defined == ~IsNaN(ahead_ratio) /\ ~IsNaN(above_own_avg) /\ ~IsNaN(stability)
                   /\ ~IsNaN(growth_score)
        \* twenty times the weighted sum, in thousandths
        twenty == 6 * Milli(ahead_ratio) + 5 * Milli(above_own_avg) + 4 * Milli(stability)
                  + 5 * Milli(growth_score)
    IN  [status |-> "returned",
         ahead_ratio |-> ahead_ratio,
         above_own_avg |-> above_own_avg,
         stability |-> stability,
         early_len |-> Len(EarlySegment(player)),
         late_len |-> Len(LateSegment(player)),
         early_avg |-> early_avg,
         late_avg |-> late_avg,
         growth_score |-> growth_score,
         score |-> IF defined THEN <<(twenty + 10) \div 20, 100>> ELSE NaN]

(***************************************************************************)
(* utils.py: configuration                                                 *)
(***************************************************************************)
\* YAML values: None, integers, strings and mappings
None == [t |-> "none"]

I(n) == [t |-> "int", v |-> n]

S(x) == [t |-> "str", v |-> x]

D(f) == [t |-> "dict", d |-> f]

AttributeError == [t |-> "raise", exception |-> "AttributeError"]

\* x.get(key, default): only a mapping has a get method
DictGet(x, key, default) ==
    IF x.t = "raise" THEN x
    ELSE IF x.t # "dict" THEN AttributeError
    ELSE IF key \in DOMAIN x.d THEN x.d[key]
    ELSE default

get_default_config ==
    D([tournaments |->
           D([ausopen |-> D([name |-> S("Australian Open"), url |-> S("ausopen")]),
              frenchopen |-> D([name |-> S("French Open"), url |-> S("frenchopen")]),
              wimbledon |-> D([name |-> S("Wimbledon"), url |-> S("wimbledon")]),
              usopen |-> D([name |-> S("US Open"), url |-> S("usopen")])]),
       data |->
           D([download_timeout |-> I(30), max_retries |-> I(3), cache_duration |-> I(3600),
              supported_years |-> D([min |-> I(2011), max |-> I(2024)])]),
       visualization |->
           D([default_colors |-> D([player1 |-> S("#1f77b4"), player2 |-> S("#d62728")]),
              chart |-> D([height |-> I(500), line_width |-> I(3), marker_size |-> I(4)])]),
       ui |->
           D([default_tournament |-> S("wimbledon"), default_year |-> I(2019),
              default_players |->
                  D([player1 |-> S("Novak Djokovic"), player2 |-> S("Roger Federer")])])])

\* yaml.safe_load: None for an empty document
safe_load(file) ==
    IF file.content = "empty" THEN None ELSE file.value

load_config(file) ==
    IF ~file.exists THEN [status |-> "returned", value |-> get_default_config]
    ELSE IF file.content = "malformed" THEN Raised("ValueError")
    ELSE [status |-> "returned", value |-> safe_load(file)]

validate_year(year, cfg) ==
    LET supported_min == DictGet(DictGet(cfg, "data", D(EmptyDict)), "supported_years", D(EmptyDict))
        supported_max == DictGet(DictGet(cfg, "data", D(EmptyDict)), "supported_years", D(EmptyDict))
        min_year == DictGet(supported_min, "min", I(2011))
        max_year == DictGet(supported_max, "max", I(2024))
    IN  IF min_year.t = "raise" \/ max_year.t = "raise" THEN Raised("AttributeError")
        ELSE [status |-> "returned", min_year |-> min_year.v, max_year |-> max_year.v,
              value |-> (min_year.v <= year /\ year <= max_year.v)]

\* TennisMatchAnalyzer._download_file: response is the outcome of requests.get
download_file(cfg, response) ==
    LET timeout == DictGet(DictGet(cfg, "data", D(EmptyDict)), "download_timeout", I(30))
    IN  IF timeout.t = "raise" THEN Raised("AttributeError")
        ELSE [status |-> "returned", timeout |-> timeout.v, value |-> (response = "ok")]

\* Series.rolling(window=w, center=True).mean(): NaN where the window is not full
RollingCenteredMean(s, w) ==
    [i \in 1..Len(s) |->
        LET last == i + ((w - 1) \div 2)
            first == last - w + 1
            window == SubSeq(s, first, last)
        IN  IF first < 1 \/ last > Len(s) \/ (\E k \in first..last : IsNaN(s[k])) THEN NaN
            ELSE LET t == SeriesSum(window) IN <<t[1], t[2] * w>>]

\* r.fillna(s)
SeriesFillFrom(r, s) == [i \in 1..Len(r) |-> IF IsNaN(r[i]) THEN s[i] ELSE r[i]]

SmoothColumn(df, name, w) ==
    SeriesFillFrom(RollingCenteredMean(Column(df.rows, name), w), Column(df.rows, name))

\* variant: no copy is taken, the name is bound to the frame received
DataFrameAlias(df) == [object |-> "input", value |-> df]

\* df.copy(): a new frame with the same content
DataFrameCopy(df) == [object |-> "copy", value |-> df]

smooth_momentum_data(cfg, df, window_size) ==
    LET target == DataFrameCopy(df)
        resolved ==
            IF window_size.t = "none"
            THEN DictGet(DictGet(DictGet(cfg, "visualization", D(EmptyDict)),
                                 "momentum", D(EmptyDict)),
                         "window_size", I(5))
            ELSE window_size
    IN  IF resolved.t = "raise" THEN Raised("AttributeError")
        ELSE LET df_smooth ==
                     IF HasMomentumColumns(df)
                     THEN [target.value EXCEPT !.rows =
                              [i \in 1..Len(df.rows) |->
                                  [df.rows[i] EXCEPT
                                      !.P1Momentum = SmoothColumn(df, "P1Momentum", resolved.v)[i],
                                      !.P2Momentum = SmoothColumn(df, "P2Momentum", resolved.v)[i]]]]
                     ELSE target.value
             IN  [status |-> "returned", window_size |-> resolved.v, df |-> df_smooth,
                  input_after |-> InputAfter(df, target, df_smooth)]

\* Series.diff().fillna(0)
DiffFillZero(s) == SeriesFillNa(SeriesDiff(s), F(0))

calculate_momentum_derivatives(df) ==
    LET target == DataFrameCopy(df)
        p1_change == DiffFillZero(Column(df.rows, "P1Momentum"))
        p2_change == DiffFillZero(Column(df.rows, "P2Momentum"))
        p1_accel == DiffFillZero(p1_change)
        p2_accel == DiffFillZero(p2_change)
        df_with_derivatives ==
            IF HasMomentumColumns(df)
            THEN [target.value EXCEPT
                     !.columns = @ \cup {"P1Momentum_change", "P2Momentum_change",
                                         "P1Momentum_accel", "P2Momentum_accel"},
                     !.rows = [i \in 1..Len(df.rows) |->
                                  [P1Momentum_change |-> p1_change[i],
                                   P2Momentum_change |-> p2_change[i],
                                   P1Momentum_accel |-> p1_accel[i],
                                   P2Momentum_accel |-> p2_accel[i]] @@ df.rows[i]]]
            ELSE target.value
    IN  [status |-> "returned", df |-> df_with_derivatives,
         input_after |-> InputAfter(df, target, df_with_derivatives)]

(***************************************************************************)
(* tennis_momentum_analyzer.py: downloaded files                           *)
(***************************************************************************)
\* temp_dir = None
NoDir == 0

\* points_file = None, matches_file = None
NoFile == [dir |-> NoDir, name |-> "None"]

\* os.path.join(temp_dir, filename)
FilePath(dir, name) == [dir |-> dir, name |-> name]

\* TennisMatchAnalyzer.__init__
NewAnalyzer == [temp_dir |-> NoDir, points_file |-> NoFile, matches_file |-> NoFile]

\* the temporary directories on disk, their files, and the number of mkdtemp calls
EmptyDisk == [dirs |-> {}, files |-> {}, made |-> 0]

\* os.path.exists
DirExists(d, dir) == dir \in d.dirs

FileExists(d, file) == file \in d.files

download_tournament_data(a, d, year, cfg, points_response, matches_response) ==
    LET valid == validate_year(year, cfg)
        temp_dir == d.made + 1
        points == download_file(cfg, points_response)
        matches == download_file(cfg, matches_response)
        made == [d EXCEPT !.dirs = @ \cup {temp_dir}, !.made = temp_dir]
    IN  IF valid.status = "raised" THEN Raised(valid.exception) @@ [analyzer |-> a, disk |-> d]
        ELSE IF ~valid.value THEN Raised("ValueError") @@ [analyzer |-> a, disk |-> d]
        ELSE IF points.status = "raised"
        THEN Raised(points.exception)
             @@ [analyzer |-> [a EXCEPT !.temp_dir = temp_dir], disk |-> made]
        ELSE [status |-> "returned",
              value |-> (points.value /\ matches.value),
              analyzer |->
                  [temp_dir |-> temp_dir,
                   points_file |-> IF points.value THEN FilePath(temp_dir, "points")
                                   ELSE a.points_file,
                   matches_file |-> IF matches.value THEN FilePath(temp_dir, "matches")
                                    ELSE a.matches_file],
              disk |->
                  [made EXCEPT !.files =
                      @ \cup (IF points.value THEN {FilePath(temp_dir, "points")} ELSE {})
                        \cup (IF matches.value THEN {FilePath(temp_dir, "matches")} ELSE {})]]

\* scanned is what the scan of the matches file yields: a match id or "None"
find_match_id(a, d, scanned) ==
    IF a.temp_dir = NoDir \/ a.matches_file = NoFile THEN "None"
    ELSE IF ~FileExists(d, a.matches_file) THEN "None"
    ELSE scanned

\* scanned is what the scan of the points file yields: a frame or "None"
create_match_dataframe(a, d, scanned) ==
    IF a.temp_dir = NoDir \/ a.points_file = NoFile THEN "None"
    ELSE IF ~FileExists(d, a.points_file) THEN "None"
    ELSE IF ~FileExists(d, a.matches_file) THEN "None"
    ELSE scanned

\* variant: the directory is removed but the file paths are kept
cleanup_files_keeping_paths(a, d) ==
    IF a.temp_dir # NoDir /\ DirExists(d, a.temp_dir)
    THEN [analyzer |-> [a EXCEPT !.temp_dir = NoDir],
          disk |-> [d EXCEPT !.dirs = @ \ {a.temp_dir},
                             !.files = {f \in @ : f.dir # a.temp_dir}]]
    ELSE [analyzer |-> a, disk |-> d]

\* shutil.rmtree(temp_dir) and the three fields back to None
cleanup_files(a, d) ==
    IF a.temp_dir # NoDir /\ DirExists(d, a.temp_dir)
    THEN [analyzer |-> NewAnalyzer,
          disk |-> [d EXCEPT !.dirs = @ \ {a.temp_dir},
                             !.files = {f \in @ : f.dir # a.temp_dir}]]
    ELSE [analyzer |-> a, disk |-> d]

\* a player name as the checks see it: the number of whitespace-separated parts and
\* whether every character is a letter, space, hyphen, apostrophe or dot
validate_player_names(player1, player2) ==
    IF player1.parts = 0 \/ player2.parts = 0 THEN FALSE
    ELSE IF ~player1.allowed THEN FALSE
    ELSE IF ~player2.allowed THEN FALSE
    ELSE IF player1.parts < 2 THEN FALSE
    ELSE IF player2.parts < 2 THEN FALSE
    ELSE TRUE

TournamentUrls(cfg) ==
    LET tournaments == DictGet(cfg, "tournaments", D(EmptyDict))
    IN  {tournaments.d[k].d.url.v : k \in DOMAIN tournaments.d}

\* TennisMatchAnalyzer.validate_inputs
validate_inputs(cfg, tournament_url, year, player1, player2) ==
    IF tournament_url \notin TournamentUrls(cfg) THEN FALSE
    ELSE IF ~validate_year(year, cfg).value THEN FALSE
    ELSE validate_player_names(player1, player2)

(***************************************************************************)
(* app/main.py: session state                                              *)
(***************************************************************************)
\* initialize_session_state
NewSession == [match_data |-> None, key_moments |-> None, analysis_complete |-> FALSE]

\* variant: the flag is set while the key moments of the run are not stored
StoreResultsWithoutKeyMoments(s, data, moments) ==
    [s EXCEPT !.match_data = data, !.analysis_complete = TRUE]

\* st.session_state.match_data, key_moments and analysis_complete, set together
StoreResults(s, data, moments) ==
    [match_data |-> data, key_moments |-> moments, analysis_complete |-> TRUE]

(***************************************************************************)
(* Inputs                                                                  *)
(***************************************************************************)
AllColumns ==
    {"match_id", "player1", "player2", "ElapsedTime", "PointNumber", "P1Momentum", "P2Momentum",
     "SetNo", "P1GamesWon", "P2GamesWon"}

P1MomentumValues == {NaN, F(1), F(5)}

P2MomentumValues == {F(0), F(1)}

SetNoValues == {1, 2}

GamesPairs == {<<F(6), F(4)>>, <<F(6), F(2)>>, <<F(4), F(6)>>, <<F(6), F(6)>>, <<NaN, F(4)>>}

AnimationTypes == {"Time-based", "Point-based"}

Thresholds == {F(0), F(1), F(2)}

\* the elapsed time "0:0i:30" of the i-th point
TimeStr(i) == <<"0", ":", "0", ToString(i), ":", "3", "0">>

MkRow(i, p1, p2, set_no, games) ==
    [PointNumber |-> i, ElapsedTime |-> TimeStr(i), P1Momentum |-> p1, P2Momentum |-> p2,
     SetNo |-> set_no, P1GamesWon |-> games[1], P2GamesWon |-> games[2]]

MkFrame(kind, columns, rows) ==
    [kind |-> kind, columns |-> columns, player1 |-> "Player A", player2 |-> "Player B",
     rows |-> rows]

\* eager frames of one set whose momentum values vary
MomentumFrames ==
    UNION {{MkFrame("DataFrame", AllColumns,
                    [i \in 1..n |-> MkRow(i, p1[i], p2[i], 1, <<F(0), F(0)>>)]) :
                <<p1, p2>> \in [1..n -> P1MomentumValues] \X [1..n -> P2MomentumValues]} :
           n \in 0..MaxPoints}

ColumnVariants ==
    {AllColumns, AllColumns \ {"SetNo"}, AllColumns \ {"P1GamesWon", "P2GamesWon"}}

\* eager and lazy frames whose set numbers, games-won values and columns vary
ScoreFrames ==
    UNION {{MkFrame(kind, columns, [i \in 1..n |-> MkRow(i, F(1), F(0), set_no[i], games[i])]) :
                <<kind, columns, set_no, games>> \in
                    {"DataFrame", "LazyFrame"} \X ColumnVariants
                    \X [1..n -> SetNoValues] \X [1..n -> GamesPairs]} :
           n \in 0..MaxScoreRows}

ElapsedValues ==
    {<<"0", ":", "0", "1", ":", "3", "0">>, <<"b", "a", "d">>,
     <<"1", ":", "2", ":", "3", ":", "b">>, NullText}

\* eager frames whose elapsed-time cells vary
ElapsedFrames ==
    UNION {{MkFrame("DataFrame", AllColumns,
                    [i \in 1..n |->
                        [MkRow(i, F(1), F(0), 1, <<F(0), F(0)>>) EXCEPT !.ElapsedTime = t[i]]]) :
                t \in [1..n -> ElapsedValues]} :
           n \in 1..MaxElapsedRows}

(***************************************************************************)
(* State machine                                                           *)
(***************************************************************************)
NoFrame == MkFrame("DataFrame", AllColumns, <<>>)

StatsIdle ==
    /\ frame = NoFrame
    /\ score_result = NotCalled
    /\ match_data = NotCalled
    /\ key_moments = NotCalled

TimeIdle == seconds = 0 /\ time_text = NotCalled /\ parsed = NotCalled

SeriesIdle == momentum_series = NotCalled /\ consistency = NotCalled

ConfigIdle == config_file = NotCalled /\ config = NotCalled /\ config_use = NotCalled

DirectIdle == pandas_frame = NotCalled /\ set_stats = NotCalled /\ frame_result = NotCalled

AnalyzerIdle == analyzer = NotCalled /\ disk = NotCalled /\ analyzer_result = NotCalled

SessionIdle == pc = "off" /\ session = NotCalled /\ run = NotCalled

RestIdle == DirectIdle /\ AnalyzerIdle /\ SessionIdle

Init ==
    /\ frame \in MomentumFrames
    /\ score_result = NotCalled
    /\ match_data = NotCalled
    /\ key_moments = NotCalled
    /\ TimeIdle /\ SeriesIdle /\ ConfigIdle /\ RestIdle

InitScore ==
    /\ frame \in ScoreFrames
    /\ score_result = NotCalled
    /\ match_data = NotCalled
    /\ key_moments = NotCalled
    /\ TimeIdle /\ SeriesIdle /\ ConfigIdle /\ RestIdle

\* frames whose elapsed-time cells are well-formed, malformed or null
InitElapsed ==
    /\ frame \in ElapsedFrames
    /\ score_result = NotCalled
    /\ match_data = NotCalled
    /\ key_moments = NotCalled
    /\ TimeIdle /\ SeriesIdle /\ ConfigIdle /\ RestIdle

\* calculate_match_score(frame)
CalculateMatchScore ==
    /\ score_result' = calculate_match_score(frame)
    /\ UNCHANGED <<frame, match_data, key_moments>>
    /\ UNCHANGED <<timeVars, seriesVars, configVars, restVars>>

\* DataProcessor.process_match_data(frame, animation_type)
ProcessMatchData ==
    \E animation_type \in AnimationTypes :
        /\ match_data' = process_match_data(frame, animation_type)
        /\ frame' = IF match_data'.status = "returned" THEN match_data'.input_after ELSE frame
        /\ key_moments' = NotCalled
        /\ UNCHANGED score_result
        /\ UNCHANGED <<timeVars, seriesVars, configVars, restVars>>

\* DataProcessor.identify_key_moments(match_data["df"], threshold)
IdentifyKeyMoments ==
    \E threshold \in Thresholds :
        /\ match_data.status = "returned"
        /\ key_moments' =
               [status |-> "returned", threshold |-> threshold]
               @@ identify_key_moments(match_data.df, threshold)
        /\ UNCHANGED <<frame, score_result, match_data>>
        /\ UNCHANGED <<timeVars, seriesVars, configVars, restVars>>

\* statistics and key moments of one match
Next == ProcessMatchData \/ IdentifyKeyMoments

Spec == Init /\ [][Next]_vars

\* the match score, called directly and through process_match_data
NextScore == CalculateMatchScore \/ ProcessMatchData

SpecScore == InitScore /\ [][NextScore]_vars

\* process_match_data on frames with unparseable elapsed times
SpecElapsed == InitElapsed /\ [][Next]_vars

(***************************************************************************)
(* State machine of the time functions                                     *)
(***************************************************************************)
TimeAlphabet == {"1", "2", ":", "b", "."}

ExampleTexts ==
    {<<"1", ":", "0", "2", ":", "0", "3">>, <<"5", ":", "3", "0">>, <<"4", "5">>,
     <<"b", "a", "d">>}

\* the strings handed to parse_time_to_seconds
TimeTexts ==
    ExampleTexts \cup UNION {[1..n -> TimeAlphabet] : n \in 0..MaxTextLen}

InitTime ==
    /\ \/ seconds \in 0..MaxSeconds /\ time_text = NotCalled
       \/ seconds = 0 /\ time_text \in {[status |-> "given", text |-> t] : t \in TimeTexts}
    /\ parsed = NotCalled
    /\ StatsIdle /\ SeriesIdle /\ ConfigIdle /\ RestIdle

\* format_time(seconds)
FormatTime ==
    /\ time_text' = [status |-> "returned", text |-> format_time(seconds)]
    /\ UNCHANGED <<seconds, parsed>>
    /\ UNCHANGED <<statsVars, seriesVars, configVars, restVars>>

\* parse_time_to_seconds(time_text)
ParseTime ==
    /\ time_text.status # "not_called"
    /\ parsed' = [status |-> "returned", text |-> time_text.text,
                   value |-> parse_time_to_seconds(time_text.text)]
    /\ UNCHANGED <<seconds, time_text>>
    /\ UNCHANGED <<statsVars, seriesVars, configVars, restVars>>

NextTime == FormatTime \/ ParseTime

SpecTime == InitTime /\ [][NextTime]_vars

(***************************************************************************)
(* State machine of key moments on a frame handed in directly              *)
(***************************************************************************)
MomentumColumnVariants ==
    {AllColumns, AllColumns \ {"P1Momentum"}, AllColumns \ {"P2Momentum"},
     AllColumns \ {"P1Momentum", "P2Momentum"}}

\* frames with both, one or none of the momentum columns
DirectFrames ==
    UNION {{MkFrame("DataFrame", columns,
                    [i \in 1..n |-> MkRow(i, p1[i], p2[i], 1, <<F(0), F(0)>>)]) :
                <<columns, p1, p2>> \in
                    MomentumColumnVariants \X [1..n -> P1MomentumValues]
                    \X [1..n -> P2MomentumValues]} :
           n \in 0..MaxDirectRows}

InitDirect ==
    /\ frame \in DirectFrames
    /\ score_result = NotCalled
    /\ match_data = NotCalled
    /\ key_moments = NotCalled
    /\ TimeIdle /\ SeriesIdle /\ ConfigIdle /\ RestIdle

\* DataProcessor.identify_key_moments(frame, threshold)
IdentifyKeyMomentsDirect ==
    \E threshold \in Thresholds :
        /\ key_moments' =
               [status |-> "returned", threshold |-> threshold]
               @@ identify_key_moments(frame, threshold)
        /\ UNCHANGED <<frame, score_result, match_data>>
        /\ UNCHANGED <<timeVars, seriesVars, configVars, restVars>>

NextDirect == IdentifyKeyMomentsDirect

SpecDirect == InitDirect /\ [][NextDirect]_vars

(***************************************************************************)
(* State machine of the set breakdown on a frame handed in directly        *)
(***************************************************************************)
PandasColumns == AllColumns \cup {"cumulative_seconds", "x_axis"}

\* the optional columns a pandas frame may come without
DroppedColumns ==
    {{}, {"SetNo"}, {"P1GamesWon", "P2GamesWon"}, {"P1GamesWon"}, {"P1Momentum", "P2Momentum"},
     {"P2Momentum"}, {"cumulative_seconds"}}

\* processed frames whose set numbers, games-won values and columns vary
BreakdownFrames ==
    UNION {{[kind |-> "pandas", columns |-> PandasColumns \ dropped,
             player1 |-> "Player A", player2 |-> "Player B",
             rows |-> [i \in 1..n |->
                          ProcessedRow(MkRow(i, F(1), F(0), set_no[i], games[i]), "Time-based")]] :
                <<dropped, set_no, games>> \in
                    DroppedColumns \X [1..n -> SetNoValues] \X [1..n -> GamesPairs]} :
           n \in 0..MaxBreakdownRows}

InitBreakdown ==
    /\ pandas_frame \in BreakdownFrames
    /\ set_stats = NotCalled
    /\ frame_result = NotCalled
    /\ StatsIdle /\ TimeIdle /\ SeriesIdle /\ ConfigIdle /\ AnalyzerIdle /\ SessionIdle

\* DataProcessor._calculate_set_breakdown(pandas_frame)
CalculateSetBreakdown ==
    /\ set_stats' = [status |-> "returned", value |-> _calculate_set_breakdown(pandas_frame)]
    /\ UNCHANGED <<pandas_frame, frame_result>>
    /\ UNCHANGED <<statsVars, timeVars, seriesVars, configVars, analyzerVars, sessionVars>>

NextBreakdown == CalculateSetBreakdown

SpecBreakdown == InitBreakdown /\ [][NextBreakdown]_vars

(***************************************************************************)
(* State machine of the consistency score                                  *)
(***************************************************************************)
PlayerValues == {F(0), F(1), F(5)}

OpponentLevels == {F(0), F(1)}

\* a player's series against an opponent whose momentum stays level
SeriesPairs ==
    UNION {{[player |-> p, opponent |-> [i \in 1..n |-> c]] :
                <<p, c>> \in [1..n -> PlayerValues] \X OpponentLevels} :
           n \in 1..MaxSeriesLen}

InitSeries ==
    /\ momentum_series \in SeriesPairs
    /\ consistency = NotCalled
    /\ StatsIdle /\ TimeIdle /\ ConfigIdle /\ RestIdle

\* DataProcessor.calculate_momentum_consistency(player, opponent)
CalculateMomentumConsistency ==
    /\ consistency' =
           calculate_momentum_consistency(momentum_series.player, momentum_series.opponent)
    /\ UNCHANGED momentum_series
    /\ UNCHANGED <<statsVars, timeVars, configVars, restVars>>

NextSeries == CalculateMomentumConsistency

SpecSeries == InitSeries /\ [][NextSeries]_vars

(***************************************************************************)
(* State machine of the configuration                                      *)
(***************************************************************************)
SupportedYearsVariants ==
    {D(EmptyDict), D([min |-> I(2015)]), D([max |-> I(2020)]),
     D([min |-> I(2015), max |-> I(2020)])}

\* the "data" section: a mapping with or without each key, or a key with no value
DataSections ==
    {None, D(EmptyDict), D([download_timeout |-> I(10)])}
    \cup {D([supported_years |-> y]) : y \in SupportedYearsVariants}
    \cup {D([download_timeout |-> I(10), supported_years |-> y]) : y \in SupportedYearsVariants}

VisualizationSections ==
    {D(EmptyDict), D([momentum |-> D(EmptyDict)]),
     D([momentum |-> D([window_size |-> I(1)])])}

ConfigMappings ==
    {D(EmptyDict)}
    \cup {D([data |-> d]) : d \in DataSections}
    \cup {D([visualization |-> v]) : v \in VisualizationSections}
    \cup {D([data |-> d, visualization |-> v]) :
              <<d, v>> \in DataSections \X VisualizationSections}

\* no config file, an empty one, one that is not YAML, or one holding a mapping
ConfigFiles ==
    {[exists |-> FALSE, content |-> "none", value |-> None],
     [exists |-> TRUE, content |-> "empty", value |-> None],
     [exists |-> TRUE, content |-> "malformed", value |-> None]}
    \cup {[exists |-> TRUE, content |-> "mapping", value |-> m] : m \in ConfigMappings}

Years == {2010, 2011, 2018, 2024, 2025}

WindowSizes == {None, I(3)}

Responses == {"ok", "request_exception"}

SmoothSeries ==
    {<<>>, <<F(0), F(1), F(5)>>, <<F(0), F(1), F(5), F(1), F(0)>>}

SmoothFrames ==
    {MkFrame("DataFrame", columns, [i \in 1..Len(p) |-> MkRow(i, p[i], F(1), 1, <<F(0), F(0)>>)]) :
         <<columns, p>> \in {AllColumns, AllColumns \ {"P1Momentum"}} \X SmoothSeries}

InitConfig ==
    /\ config_file \in ConfigFiles
    /\ config = NotCalled
    /\ config_use = NotCalled
    /\ StatsIdle /\ TimeIdle /\ SeriesIdle /\ RestIdle

\* self.config = load_config(config_path) in the constructors
LoadConfig ==
    /\ config = NotCalled
    /\ config' = load_config(config_file)
    /\ UNCHANGED <<config_file, config_use>>
    /\ UNCHANGED <<statsVars, timeVars, seriesVars, restVars>>

\* validate_year(year, self.config)
ValidateYear ==
    \E year \in Years :
        /\ config.status = "returned"
        /\ config_use' = [op |-> "validate_year", year |-> year]
                         @@ validate_year(year, config.value)
        /\ UNCHANGED <<config_file, config>>
        /\ UNCHANGED <<statsVars, timeVars, seriesVars, restVars>>

\* TennisMatchAnalyzer._download_file(url, filename)
DownloadFile ==
    \E response \in Responses :
        /\ config.status = "returned"
        /\ config_use' = [op |-> "_download_file"] @@ download_file(config.value, response)
        /\ UNCHANGED <<config_file, config>>
        /\ UNCHANGED <<statsVars, timeVars, seriesVars, restVars>>

\* DataProcessor.smooth_momentum_data(df, window_size)
SmoothMomentumData ==
    \E df \in SmoothFrames, window_size \in WindowSizes :
        /\ config.status = "returned"
        /\ config_use' = [op |-> "smooth_momentum_data", argument |-> window_size, input |-> df]
                         @@ smooth_momentum_data(config.value, df, window_size)
        /\ UNCHANGED <<config_file, config>>
        /\ UNCHANGED <<statsVars, timeVars, seriesVars, restVars>>

NextConfig == LoadConfig \/ ValidateYear \/ DownloadFile \/ SmoothMomentumData

SpecConfig == InitConfig /\ [][NextConfig]_vars

(***************************************************************************)
(* State machine of the operations on the processed frame                  *)
(***************************************************************************)
\* eager frames of one set, all columns present
TableFrames ==
    UNION {{MkFrame("DataFrame", AllColumns,
                    [i \in 1..n |-> MkRow(i, p1[i], p2[i], 1, <<F(0), F(0)>>)]) :
                <<p1, p2>> \in [1..n -> PlayerValues] \X [1..n -> OpponentLevels]} :
           n \in 0..MaxFrameRows}

InitFrames ==
    /\ frame \in TableFrames
    /\ score_result = NotCalled
    /\ match_data = NotCalled
    /\ key_moments = NotCalled
    /\ TimeIdle /\ SeriesIdle /\ ConfigIdle /\ RestIdle

\* the call record of an operation on match_data["df"]
FrameCall(op, argument, result) ==
    [op |-> op, argument |-> argument, input |-> match_data.df, status |-> result.status,
     value |-> result.value]

\* DataProcessor.smooth_momentum_data(match_data["df"], window_size)
SmoothFrame ==
    \E window_size \in WindowSizes :
        LET r == smooth_momentum_data(get_default_config, match_data.df, window_size)
        IN  /\ match_data.status = "returned"
            /\ frame_result' = FrameCall("smooth_momentum_data", [window_size |-> window_size],
                                         [status |-> r.status, value |-> r.df])
            /\ match_data' = [match_data EXCEPT !.df = r.input_after]
            /\ UNCHANGED <<frame, score_result, key_moments, pandas_frame, set_stats>>
            /\ UNCHANGED <<timeVars, seriesVars, configVars, analyzerVars, sessionVars>>

\* DataProcessor.calculate_momentum_derivatives(match_data["df"])
DerivativesFrame ==
    LET r == calculate_momentum_derivatives(match_data.df)
    IN  /\ match_data.status = "returned"
        /\ frame_result' = FrameCall("calculate_momentum_derivatives", None,
                                     [status |-> r.status, value |-> r.df])
        /\ match_data' = [match_data EXCEPT !.df = r.input_after]
        /\ UNCHANGED <<frame, score_result, key_moments, pandas_frame, set_stats>>
        /\ UNCHANGED <<timeVars, seriesVars, configVars, analyzerVars, sessionVars>>

\* DataProcessor.identify_key_moments(match_data["df"], threshold): the frame is only read
KeyMomentsFrame ==
    \E threshold \in Thresholds :
        /\ match_data.status = "returned"
        /\ frame_result' = FrameCall("identify_key_moments", [threshold |-> threshold],
                                     [status |-> "returned",
                                      value |-> identify_key_moments(match_data.df, threshold)])
        /\ UNCHANGED <<statsVars, pandas_frame, set_stats>>
        /\ UNCHANGED <<timeVars, seriesVars, configVars, analyzerVars, sessionVars>>

\* DataProcessor.calculate_momentum_consistency(df["P1Momentum"], df["P2Momentum"]): the
\* two series are only read
ConsistencyFrame ==
    /\ match_data.status = "returned"
    /\ frame_result' =
           FrameCall("calculate_momentum_consistency", None,
                     [status |-> "returned",
                      value |-> [score |-> calculate_momentum_consistency(
                                                Column(match_data.df.rows, "P1Momentum"),
                                                Column(match_data.df.rows, "P2Momentum")).score]])
    /\ UNCHANGED <<statsVars, pandas_frame, set_stats>>
    /\ UNCHANGED <<timeVars, seriesVars, configVars, analyzerVars, sessionVars>>

NextFrames ==
    ProcessMatchData \/ SmoothFrame \/ DerivativesFrame \/ KeyMomentsFrame \/ ConsistencyFrame

SpecFrames == InitFrames /\ [][NextFrames]_vars

(***************************************************************************)
(* State machine of the analyzer                                           *)
(***************************************************************************)
AnalyzerYears == {2018, 2030}

MatchIds == {"None", "2019-wimbledon-1701"}

\* the record of a call: fresh tells that no download was called since construction
\* or the last cleanup_files, calls counts the calls modulo 2
CallRecord(op, argument, status, value, fresh) ==
    [op |-> op, argument |-> argument, status |-> status, value |-> value, fresh |-> fresh,
     calls |-> 1 - analyzer_result.calls]

InitAnalyzer ==
    /\ analyzer = NewAnalyzer
    /\ disk = EmptyDisk
    /\ analyzer_result = [op |-> "__init__", argument |-> 0, status |-> "returned",
                          value |-> "None", fresh |-> TRUE, calls |-> 0]
    /\ StatsIdle /\ TimeIdle /\ SeriesIdle /\ ConfigIdle /\ DirectIdle /\ SessionIdle

\* TennisMatchAnalyzer.download_tournament_data(tournament_url, year)
DownloadTournamentData ==
    \E year \in AnalyzerYears, points_response \in Responses, matches_response \in Responses :
        LET r == download_tournament_data(analyzer, disk, year, get_default_config,
                                          points_response, matches_response)
        IN  /\ disk.made < MaxDirs
            /\ analyzer' = r.analyzer
            /\ disk' = r.disk
            /\ analyzer_result' =
                   CallRecord("download_tournament_data", year, r.status,
                              IF r.status = "raised" THEN r.exception
                              ELSE IF r.value THEN "True" ELSE "False",
                              FALSE)
            /\ UNCHANGED <<statsVars, timeVars, seriesVars, configVars, directVars, sessionVars>>

\* TennisMatchAnalyzer.find_match_id(player1, player2)
FindMatchId ==
    \E scanned \in MatchIds :
        /\ analyzer_result' =
               CallRecord("find_match_id", 0, "returned", find_match_id(analyzer, disk, scanned),
                          analyzer_result.fresh)
        /\ UNCHANGED <<analyzer, disk>>
        /\ UNCHANGED <<statsVars, timeVars, seriesVars, configVars, directVars, sessionVars>>

\* TennisMatchAnalyzer.create_match_dataframe(match_id)
CreateMatchDataframe ==
    \E scanned \in {"None", "DataFrame"} :
        /\ analyzer_result' =
               CallRecord("create_match_dataframe", 0, "returned",
                          create_match_dataframe(analyzer, disk, scanned), analyzer_result.fresh)
        /\ UNCHANGED <<analyzer, disk>>
        /\ UNCHANGED <<statsVars, timeVars, seriesVars, configVars, directVars, sessionVars>>

\* TennisMatchAnalyzer.cleanup_files()
CleanupFiles ==
    LET r == cleanup_files(analyzer, disk)
    IN  /\ analyzer' = r.analyzer
        /\ disk' = r.disk
        /\ analyzer_result' = CallRecord("cleanup_files", 0, "returned", "None", TRUE)
        /\ UNCHANGED <<statsVars, timeVars, seriesVars, configVars, directVars, sessionVars>>

NextAnalyzer == DownloadTournamentData \/ FindMatchId \/ CreateMatchDataframe \/ CleanupFiles

SpecAnalyzer == InitAnalyzer /\ [][NextAnalyzer]_vars

(***************************************************************************)
(* State machine of the analysis session                                   *)
(***************************************************************************)
PlayerNames == {[parts |-> 2, allowed |-> TRUE], [parts |-> 1, allowed |-> TRUE]}

RunInputs ==
    [tournament_url : {"wimbledon", "daviscup"}, tournament_name : {"Wimbledon"},
     year : AnalyzerYears,
     player1 : PlayerNames, player2 : {[parts |-> 2, allowed |-> TRUE]},
     animation_type : AnimationTypes]

\* what the scan of the points file can yield for the match
ScannedFrames == {"None", "two_points", "null_elapsed"}

SessionFrame(name) ==
    IF name = "two_points"
    THEN MkFrame("DataFrame", AllColumns,
                 <<MkRow(1, F(1), F(0), 1, <<F(0), F(0)>>), MkRow(2, F(5), F(1), 1, <<F(1), F(0)>>)>>)
    ELSE MkFrame("DataFrame", AllColumns,
                 <<[MkRow(1, F(1), F(0), 1, <<F(0), F(0)>>) EXCEPT !.ElapsedTime = NullText]>>)

InitSession ==
    /\ session = NewSession
    /\ analyzer = NewAnalyzer
    /\ disk = EmptyDisk
    /\ analyzer_result = NotCalled
    /\ pc = "idle"
    /\ run = [outcome |-> "none", created |-> NoDir, before |-> NewSession]
    /\ StatsIdle /\ TimeIdle /\ SeriesIdle /\ ConfigIdle /\ DirectIdle

outsideSession == <<statsVars, timeVars, seriesVars, configVars, directVars, analyzer_result>>

\* the run ends: return or the except clause of run_analysis
EndRun(outcome) ==
    /\ pc' = "idle"
    /\ run' = [run EXCEPT !.outcome = outcome]

\* run_analysis is entered with the parameters of the sidebar
StartRun ==
    \E inputs \in RunInputs :
        /\ pc = "idle"
        /\ disk.made < MaxDirs
        /\ pc' = "validate"
        /\ run' = [outcome |-> "none", created |-> NoDir, before |-> session,
                   inputs |-> inputs, match_id |-> "None", df |-> "None"]
        /\ UNCHANGED <<session, analyzer, disk>>
        /\ UNCHANGED outsideSession

\* step 1: analyzer.validate_inputs
ValidateInputs ==
    /\ pc = "validate"
    /\ IF validate_inputs(get_default_config, run.inputs.tournament_url, run.inputs.year,
                          run.inputs.player1, run.inputs.player2)
       THEN pc' = "download" /\ UNCHANGED run
       ELSE EndRun("invalid")
    /\ UNCHANGED <<session, analyzer, disk>>
    /\ UNCHANGED outsideSession

\* step 2: analyzer.download_tournament_data
DownloadData ==
    \E points_response \in Responses, matches_response \in Responses :
        LET r == download_tournament_data(analyzer, disk, run.inputs.year, get_default_config,
                                          points_response, matches_response)
        IN  /\ pc = "download"
            /\ analyzer' = r.analyzer
            /\ disk' = r.disk
            /\ IF r.status = "raised"
               THEN pc' = "idle" /\ run' = [run EXCEPT !.outcome = "exception"]
               ELSE IF ~r.value
               THEN pc' = "idle"
                    /\ run' = [run EXCEPT !.outcome = "download_failed",
                                          !.created = r.analyzer.temp_dir]
               ELSE pc' = "find" /\ run' = [run EXCEPT !.created = r.analyzer.temp_dir]
            /\ UNCHANGED session
            /\ UNCHANGED outsideSession

\* step 3: analyzer.find_match_id
FindMatch ==
    \E scanned \in MatchIds :
        LET match_id == find_match_id(analyzer, disk, scanned)
        IN  /\ pc = "find"
            /\ IF match_id = "None" THEN EndRun("no_match")
               ELSE pc' = "load" /\ run' = [run EXCEPT !.match_id = match_id]
            /\ UNCHANGED <<session, analyzer, disk>>
            /\ UNCHANGED outsideSession

\* step 4: analyzer.create_match_dataframe
LoadMatchData ==
    \E scanned \in ScannedFrames :
        LET df == create_match_dataframe(analyzer, disk, scanned)
        IN  /\ pc = "load"
            /\ IF df = "None" THEN EndRun("load_failed")
               ELSE pc' = "process" /\ run' = [run EXCEPT !.df = df]
            /\ UNCHANGED <<session, analyzer, disk>>
            /\ UNCHANGED outsideSession

\* step 5: process_match_data, identify_key_moments and the store into the session
ProcessAndStore ==
    LET processed == process_match_data(SessionFrame(run.df), run.inputs.animation_type)
        data ==
            [processed EXCEPT
                !.stats = [tournament_name |-> run.inputs.tournament_name,
                           year |-> run.inputs.year] @@ @]
        moments == identify_key_moments(data.df, F(2))
    IN  /\ pc = "process"
        /\ IF processed.status = "raised"
           THEN EndRun("exception") /\ UNCHANGED session
           ELSE /\ session' = StoreResults(session, data, moments)
                /\ pc' = "cleanup"
                /\ UNCHANGED run
        /\ UNCHANGED <<analyzer, disk>>
        /\ UNCHANGED outsideSession

\* analyzer.cleanup_files() at the end of a complete analysis
CleanupAfterAnalysis ==
    LET r == cleanup_files(analyzer, disk)
    IN  /\ pc = "cleanup"
        /\ analyzer' = r.analyzer
        /\ disk' = r.disk
        /\ EndRun("success")
        /\ UNCHANGED session
        /\ UNCHANGED outsideSession

NextSession ==
    \/ StartRun
    \/ ValidateInputs
    \/ DownloadData
    \/ FindMatch
    \/ LoadMatchData
    \/ ProcessAndStore
    \/ CleanupAfterAnalysis

SpecSession == InitSession /\ [][NextSession]_vars

(***************************************************************************)
(* Properties                                                              *)
(***************************************************************************)
StatsReturned == match_data.status = "returned"

KeyMomentsReturned == StatsReturned /\ key_moments.status = "returned"

\* the momentum values of the processed points, as integers
P1At(i) == match_data.df.rows[i].P1Momentum[1] \div match_data.df.rows[i].P1Momentum[2]

P2At(i) == match_data.df.rows[i].P2Momentum[1] \div match_data.df.rows[i].P2Momentum[2]

NumPoints == Len(match_data.df.rows)

TiedPoints == {i \in 1..NumPoints : P1At(i) = P2At(i)}

\* C1: the points where player 1 dominates, the points where player 2 dominates and
\* the points with equal momentum account for every point of the match
C1_DominanceAccountsForEveryPoint ==
    StatsReturned =>
        match_data.stats.p1_dominant_points + match_data.stats.p2_dominant_points
            + Cardinality(TiedPoints) = match_data.stats.total_points

\* a match with a tied point, a null momentum value and points dominated by each player
C1_Witness ==
    /\ StatsReturned
    /\ TiedPoints # {}
    /\ match_data.stats.p1_dominant_points > 0
    /\ match_data.stats.p2_dominant_points > 0
    /\ \E i \in 1..Len(frame.rows) : IsNaN(frame.rows[i].P1Momentum)

PctInRange(p) == ~IsNaN(p) /\ 0 <= p[1] /\ p[1] <= 100 * p[2]

\* C2: both dominance percentages lie in [0,100] for a non-empty match and are
\* exactly 0 for an empty match
C2_DominancePctDefined ==
    StatsReturned =>
        /\ NumPoints > 0 =>
               /\ PctInRange(match_data.stats.p1_dominance_pct)
               /\ PctInRange(match_data.stats.p2_dominance_pct)
        /\ NumPoints = 0 =>
               /\ FEq(match_data.stats.p1_dominance_pct, F(0))
               /\ FEq(match_data.stats.p2_dominance_pct, F(0))

\* the last row of a set, by row order
LastIndexOfSet(rows, set_no) ==
    CHOOSE i \in 1..Len(rows) :
        rows[i].SetNo = set_no /\ \A j \in (i + 1)..Len(rows) : rows[j].SetNo # set_no

\* the final games-won pair of every set, in ascending set-number order
ExpectedTallies(rows) ==
    LET order == SortedAscending(SetNumbers(rows))
    IN  [k \in 1..Len(order) |->
            <<rows[LastIndexOfSet(rows, order[k])].P1GamesWon,
              rows[LastIndexOfSet(rows, order[k])].P2GamesWon>>]

HasScoreColumns == {"SetNo", "P1GamesWon", "P2GamesWon"} \subseteq frame.columns

TalliesKnown ==
    /\ HasScoreColumns
    /\ frame.rows # <<>>
    /\ \A k \in 1..Len(ExpectedTallies(frame.rows)) :
           ~IsNaN(ExpectedTallies(frame.rows)[k][1]) /\ ~IsNaN(ExpectedTallies(frame.rows)[k][2])

ExpectedScore(tallies) ==
    JoinComma([k \in 1..Len(tallies) |->
                  ToString(tallies[k][1][1]) \o "-" \o ToString(tallies[k][2][1])])

\* C3: the statistics of process_match_data report the final score as the per-set
\* "<p1 games>-<p2 games>" strings in ascending set order, and the sets won by each
\* player; sets ending 6-4 and 6-2 give "6-4, 6-2", 2 sets to 0, winner player 1
C3_FinalScoreFromSetTallies ==
    (StatsReturned /\ TalliesKnown) =>
        LET tallies == ExpectedTallies(frame.rows)
            won1 == Cardinality({k \in 1..Len(tallies) : tallies[k][1][1] > tallies[k][2][1]})
            won2 == Cardinality({k \in 1..Len(tallies) : tallies[k][2][1] > tallies[k][1][1]})
        IN  /\ match_data.stats.final_score = ExpectedScore(tallies)
            /\ match_data.stats.p1_sets = won1
            /\ match_data.stats.p2_sets = won2
            /\ tallies = << <<F(6), F(4)>>, <<F(6), F(2)>> >> =>
                   /\ match_data.stats.final_score = "6-4, 6-2"
                   /\ match_data.stats.winner = match_data.stats.player1_name

\* C4: the winner is player 1 only with strictly more sets than player 2, and player 2
\* only with strictly more sets than player 1
C4_WinnerWonMoreSets ==
    (score_result.status = "returned" /\ score_result # FallbackScore) =>
        /\ score_result.winner = frame.player1 => score_result.p1_sets > score_result.p2_sets
        /\ score_result.winner = frame.player2 => score_result.p2_sets > score_result.p1_sets

\* C5: calculate_match_score never raises, and returns the fallback tuple on every
\* input on which the computation fails
C5_ScoreNeverRaises ==
    /\ score_result.status # "raised"
    /\ (score_result.status = "returned" /\ ~TalliesKnown) => score_result = FallbackScore

Abs(x) == IF x < 0 THEN 0 - x ELSE x

\* change[i] = |diff[i] - diff[i-1]| with the first point's change 0
ClaimChange ==
    [i \in 1..NumPoints |->
        IF i = 1 THEN 0 ELSE Abs((P1At(i) - P2At(i)) - (P1At(i - 1) - P2At(i - 1)))]

\* the k-th smallest value of a non-empty sequence of integers, by rank
KthSmallest(c, k) ==
    CHOOSE v \in {c[i] : i \in 1..Len(c)} :
        /\ Cardinality({i \in 1..Len(c) : c[i] < v}) < k
        /\ Cardinality({i \in 1..Len(c) : c[i] <= v}) >= k

\* twice the median of a non-empty sequence of integers
TwiceMedian(c) ==
    IF Len(c) % 2 = 1 THEN 2 * KthSmallest(c, (Len(c) + 1) \div 2)
    ELSE KthSmallest(c, Len(c) \div 2) + KthSmallest(c, Len(c) \div 2 + 1)

\* C6: momentum_swings is the number of points whose change exceeds the median of
\* the change series, the first point's change 0 included in the median
C6_SwingsAboveMedianWithFirstPoint ==
    StatsReturned =>
        match_data.stats.momentum_swings =
            IF NumPoints = 0 THEN 0
            ELSE Cardinality({i \in 1..NumPoints : 2 * ClaimChange[i] > TwiceMedian(ClaimChange)})

\* a match with swings where leaving the first point out of the median changes the count
C6_Witness ==
    /\ StatsReturned
    /\ NumPoints >= 3
    /\ match_data.stats.momentum_swings > 0
    /\ match_data.stats.momentum_swings #
           Cardinality({i \in 2..NumPoints : 2 * ClaimChange[i] > TwiceMedian(Tail(ClaimChange))})

ShiftPoints(km) == {km.momentum_shifts[k].point_number : k \in 1..Len(km.momentum_shifts)}

\* C7: a point is a momentum shift iff its change exceeds threshold times the median of
\* the change series, the first point's change 0 included in the median
C7_ShiftIffAboveMedianWithFirstPoint ==
    KeyMomentsReturned =>
        ShiftPoints(key_moments) =
            IF NumPoints = 0 THEN {}
            ELSE {match_data.df.rows[i].PointNumber : i \in
                    {j \in 1..NumPoints :
                        2 * ClaimChange[j] * key_moments.threshold[2]
                            > TwiceMedian(ClaimChange) * key_moments.threshold[1]}}

\* C8: between two calls on the same points the shifts of the larger threshold are among
\* the shifts of the smaller one, and momentum_swings never decreases
C8_ShiftsShrinkAsThresholdGrows ==
    [][(KeyMomentsReturned /\ key_moments'.status = "returned" /\ match_data' = match_data) =>
          /\ ~FGt(key_moments'.threshold, key_moments.threshold) =>
                 ShiftPoints(key_moments) \subseteq ShiftPoints(key_moments')
          /\ ~FGt(key_moments.threshold, key_moments'.threshold) =>
                 ShiftPoints(key_moments') \subseteq ShiftPoints(key_moments)
          /\ match_data'.stats.momentum_swings >= match_data.stats.momentum_swings]_vars

\* key moments at threshold 0 that strictly extend the non-empty shifts of threshold 2
C8_Witness ==
    /\ KeyMomentsReturned
    /\ key_moments.threshold = F(0)
    /\ ShiftPoints(identify_key_moments(match_data.df, F(2))) # {}
    /\ ShiftPoints(identify_key_moments(match_data.df, F(2))) # ShiftPoints(key_moments)
    /\ ShiftPoints(identify_key_moments(match_data.df, F(2))) \subseteq ShiftPoints(key_moments)

\* the records of one player in peak_moments
PeakRecords(player) == SelectSeq(key_moments.peak_moments, LAMBDA r : r.player = player)

PeakRecordPoints(player) ==
    {PeakRecords(player)[k].point_number : k \in 1..Len(PeakRecords(player))}

P1PeakPoints == {i \in 1..NumPoints : \A j \in 1..NumPoints : P1At(j) <= P1At(i)}

P2PeakPoints == {i \in 1..NumPoints : \A j \in 1..NumPoints : P2At(j) <= P2At(i)}

\* C9: peak_moments holds exactly one record for every point attaining player 1's
\* maximum, one for every point attaining player 2's maximum, and nothing else
C9_PeakMomentsAreAllMaxima ==
    KeyMomentsReturned =>
        /\ PeakRecordPoints(frame.player1) = {match_data.df.rows[i].PointNumber : i \in P1PeakPoints}
        /\ Len(PeakRecords(frame.player1)) = Cardinality(P1PeakPoints)
        /\ PeakRecordPoints(frame.player2) = {match_data.df.rows[i].PointNumber : i \in P2PeakPoints}
        /\ Len(PeakRecords(frame.player2)) = Cardinality(P2PeakPoints)
        /\ Len(key_moments.peak_moments) = Cardinality(P1PeakPoints) + Cardinality(P2PeakPoints)

\* a match where each player attains the maximum more than once, not only at the first point
C9_Witness ==
    /\ KeyMomentsReturned
    /\ Cardinality(P1PeakPoints) >= 2
    /\ Cardinality(P2PeakPoints) >= 2
    /\ 1 \notin P1PeakPoints
    /\ Cardinality(P1PeakPoints) < NumPoints

\* the 4-point match with P1Momentum = [1,5,1,5] and P2Momentum = [0,0,0,0]
Scenario1515 ==
    /\ KeyMomentsReturned
    /\ NumPoints = 4
    /\ [i \in 1..4 |-> P1At(i)] = <<1, 5, 1, 5>>
    /\ [i \in 1..4 |-> P2At(i)] = <<0, 0, 0, 0>>

\* C10 as stated: in the scenario the statistics are 4 dominant points for player 1,
\* none for player 2, maximum 5, and peak_moments is exactly the two points with 5
C10_ScenarioPeaksOnlyTwo ==
    Scenario1515 =>
        /\ match_data.stats.p1_dominant_points = 4
        /\ match_data.stats.p2_dominant_points = 0
        /\ FEq(match_data.stats.p1_max_momentum, F(5))
        /\ Len(key_moments.peak_moments) = 2
        /\ {key_moments.peak_moments[k].point_number :
               k \in 1..Len(key_moments.peak_moments)} = {2, 4}

\* C10 amended: in the scenario the statistics are as stated, the player-1 records of
\* peak_moments are exactly the two points with 5, and peak_moments also holds one
\* player-2 record for each of the four points, which all attain player 2's maximum 0
C10_ScenarioPeaksPerPlayer ==
    Scenario1515 =>
        /\ match_data.stats.p1_dominant_points = 4
        /\ match_data.stats.p2_dominant_points = 0
        /\ FEq(match_data.stats.p1_max_momentum, F(5))
        /\ Len(PeakRecords(frame.player1)) = 2
        /\ PeakRecordPoints(frame.player1) = {2, 4}
        /\ \A k \in 1..2 : FEq(PeakRecords(frame.player1)[k].momentum, F(5))
        /\ Len(PeakRecords(frame.player2)) = 4
        /\ PeakRecordPoints(frame.player2) = {1, 2, 3, 4}
        /\ Len(key_moments.peak_moments) = 6

\* the scenario's match, processed and searched for key moments
C10_Witness == Scenario1515 /\ Len(key_moments.peak_moments) = 6

\* C11: with SetNo present, set_breakdown has one entry per distinct set number, in
\* ascending set order whatever the row order, null games-won values included, and
\* total_sets is its length
C11_BreakdownOnePerSetAscending ==
    (StatsReturned /\ "SetNo" \in frame.columns) =>
        LET b == match_data.stats.set_breakdown
        IN  /\ Len(b) = Cardinality(SetNumbers(frame.rows))
            /\ {b[k].set_number : k \in 1..Len(b)} = SetNumbers(frame.rows)
            /\ \A k \in 1..(Len(b) - 1) : b[k].set_number < b[k + 1].set_number
            /\ match_data.stats.total_sets = Len(b)

RECURSIVE Pow10(_)
Pow10(k) == IF k = 0 THEN 1 ELSE 10 * Pow10(k - 1)

\* the number of decimal digits of a non-negative integer
NumDigits(n) == CHOOSE k \in 1..9 : (k = 1 \/ Pow10(k - 1) <= n) /\ n < Pow10(k)

FormattedAndParsed ==
    /\ time_text.status = "returned"
    /\ parsed.status = "returned"
    /\ parsed.text = time_text.text

\* C13: parsing the text that format_time renders for a non-negative number of seconds
\* gives that number back; the text is the hours without leading zero, then the
\* minutes and the seconds on two digits each
C13_ParseInvertsFormat ==
    FormattedAndParsed =>
        LET t == time_text.text
            hd == NumDigits(seconds \div 3600)
        IN  /\ parsed.value = seconds
            /\ Len(t) = hd + 6
            /\ t[hd + 1] = ":" /\ t[hd + 4] = ":"
            /\ \A i \in (1..Len(t)) \ {hd + 1, hd + 4} : IsDigit(t[i])
            /\ (seconds >= 3600) => t[1] # "0"

\* a time of ten hours or more whose minutes and seconds both need the zero padding
C13_Witness ==
    /\ FormattedAndParsed
    /\ seconds \div 3600 >= 10
    /\ (seconds % 3600) \div 60 \in 1..9
    /\ seconds % 60 \in 1..9

HasNonNumericField(text) ==
    \E k \in 1..Len(SplitColon(text)) : ~IsNumeric(SplitColon(text)[k])

\* seconds + 60 * minutes + 3600 * hours, the fields read right to left
RightToLeftSeconds(parts) ==
    LET n == Len(parts)
    IN  IntOf(parts[n])
        + (IF n >= 2 THEN 60 * IntOf(parts[n - 1]) ELSE 0)
        + (IF n >= 3 THEN 3600 * IntOf(parts[n - 2]) ELSE 0)

\* C14: a string of 1, 2 or 3 numeric fields parses to seconds + 60*minutes + 3600*hours,
\* and every string with a non-numeric field or a wrong separator parses to 0
C14_ParseFieldsOrZero ==
    parsed.status = "returned" =>
        LET parts == SplitColon(parsed.text)
        IN  /\ (Len(parts) \in 1..3 /\ ~HasNonNumericField(parsed.text)) =>
                   parsed.value = RightToLeftSeconds(parts)
            /\ HasNonNumericField(parsed.text) => parsed.value = 0
            /\ parsed.text = <<"1", ":", "0", "2", ":", "0", "3">> => parsed.value = 3723
            /\ parsed.text = <<"5", ":", "3", "0">> => parsed.value = 330
            /\ parsed.text = <<"4", "5">> => parsed.value = 45
            /\ parsed.text = <<"b", "a", "d">> => parsed.value = 0

Unparseable(text) == text = NullText \/ HasNonNumericField(text)

\* C15: an unparseable elapsed time, malformed or null, never aborts process_match_data;
\* the row gets 0 cumulative seconds and every row is analysed
C15_UnparseableElapsedNeverAborts ==
    /\ match_data.status # "raised"
    /\ StatsReturned =>
           /\ NumPoints = Len(frame.rows)
           /\ \A i \in 1..NumPoints :
                  Unparseable(frame.rows[i].ElapsedTime) =>
                      match_data.df.rows[i].cumulative_seconds = 0

ScoreReturned == consistency.status = "returned"

SeriesLen == Len(momentum_series.player)

\* C12: the consistency score is a defined number in [0,10] for every non-empty pair
\* of series, series of length 1 and constant series included
C12_ScoreBetween0And10 ==
    ScoreReturned =>
        /\ ~IsNaN(consistency.score)
        /\ 0 <= consistency.score[1]
        /\ consistency.score[1] <= 10 * consistency.score[2]

AheadCount ==
    Cardinality({i \in 1..SeriesLen :
                    FGt(momentum_series.player[i], momentum_series.opponent[i])})

\* C18: ahead_ratio is the fraction count / n of the points where the player's
\* momentum is strictly above the opponent's
C18_AheadRatioIsFraction ==
    ScoreReturned => FEq(consistency.ahead_ratio, <<AheadCount, SeriesLen>>)

\* C19: the early and the late segment both hold floor(n/5) points
C19_SegmentsHoldFifth ==
    ScoreReturned =>
        /\ consistency.early_len = SeriesLen \div 5
        /\ consistency.late_len = SeriesLen \div 5

\* C20: below 5 points the average of an empty segment counts as 0, growth_score is a
\* defined value in [0,1] and the score is a defined number
C20_ShortSeriesDefined ==
    (ScoreReturned /\ SeriesLen < 5) =>
        /\ consistency.early_len = 0 => FEq(consistency.early_avg, F(0))
        /\ consistency.late_len = 0 => FEq(consistency.late_avg, F(0))
        /\ ~IsNaN(consistency.growth_score)
        /\ 0 <= consistency.growth_score[1]
        /\ consistency.growth_score[1] <= consistency.growth_score[2]
        /\ ~IsNaN(consistency.score)

\* C16: without P1Momentum or P2Momentum in the frame identify_key_moments returns
\* empty momentum_shifts, peak_moments and turning_points and does not raise;
\* turning_points is empty for every frame
C16_NoMomentumColumnsNoMoments ==
    key_moments.status # "not_called" =>
        /\ key_moments.status = "returned"
        /\ key_moments.turning_points = <<>>
        /\ ~({"P1Momentum", "P2Momentum"} \subseteq frame.columns) =>
               /\ key_moments.momentum_shifts = <<>>
               /\ key_moments.peak_moments = <<>>

C16_Witness ==
    /\ key_moments.status = "returned"
    /\ "P1Momentum" \notin frame.columns
    /\ "P2Momentum" \in frame.columns
    /\ Len(frame.rows) = MaxDirectRows
    /\ key_moments.peak_moments = <<>>
    /\ key_moments.turning_points = <<>>

\* the value a configuration file holds under a path of keys, None where it holds none
RECURSIVE FileValueAt(_, _)
FileValueAt(x, path) ==
    IF path = <<>> THEN x
    ELSE IF x.t = "dict" /\ Head(path) \in DOMAIN x.d THEN FileValueAt(x.d[Head(path)], Tail(path))
    ELSE None

\* the configuration names no value under the path: no file, an empty file, or a
\* mapping without the key
ConfigLacks(path) ==
    /\ config_file.content # "malformed"
    /\ FileValueAt(config_file.value, path) = None

ConfigUsed(op) == config_use.status # "not_called" /\ config_use.op = op

\* C17: with missing configuration no operation fails and the defaults are used:
\* supported years 2011..2024, download timeout 30, smoothing window size 5
C17_MissingConfigUsesDefaults ==
    /\ config_file.content # "malformed" => config.status # "raised"
    /\ config_use.status # "raised"
    /\ (ConfigUsed("validate_year") /\ ConfigLacks(<<"data", "supported_years">>)) =>
           /\ config_use.min_year = 2011
           /\ config_use.max_year = 2024
           /\ config_use.value = (2011 <= config_use.year /\ config_use.year <= 2024)
    /\ (ConfigUsed("_download_file") /\ ConfigLacks(<<"data", "download_timeout">>)) =>
           config_use.timeout = 30
    /\ (ConfigUsed("smooth_momentum_data") /\ config_use.argument = None
            /\ ConfigLacks(<<"visualization", "momentum", "window_size">>)) =>
           config_use.window_size = 5

BreakdownReturned == set_stats.status = "returned"

BreakdownEntries ==
    IF "set_breakdown" \in DOMAIN set_stats.value
    THEN {set_stats.value.set_breakdown[k] : k \in 1..Len(set_stats.value.set_breakdown)}
    ELSE {}

\* C21: without the games-won columns no set_breakdown entry has a p1_games or p2_games
\* field, without the momentum columns no entry has a per-set average momentum field,
\* and without SetNo the statistics have neither set_breakdown nor total_sets
C21_OptionalFieldsOmitted ==
    BreakdownReturned =>
        /\ "SetNo" \notin pandas_frame.columns =>
               DOMAIN set_stats.value \cap {"set_breakdown", "total_sets"} = {}
        /\ ~({"P1GamesWon", "P2GamesWon"} \subseteq pandas_frame.columns) =>
               \A e \in BreakdownEntries : DOMAIN e \cap {"p1_games", "p2_games"} = {}
        /\ ~({"P1Momentum", "P2Momentum"} \subseteq pandas_frame.columns) =>
               \A e \in BreakdownEntries :
                   DOMAIN e \cap {"p1_avg_momentum", "p2_avg_momentum"} = {}

\* a two-set frame without games-won columns whose entries keep their momentum averages
C21_Witness ==
    /\ BreakdownReturned
    /\ pandas_frame.columns = PandasColumns \ {"P1GamesWon", "P2GamesWon"}
    /\ Cardinality(BreakdownEntries) = 2
    /\ \A e \in BreakdownEntries :
           "p1_games" \notin DOMAIN e /\ "p1_avg_momentum" \in DOMAIN e

\* the points whose change exceeds threshold times the median of the changes that
\* identify_key_moments takes, which leaves the first point out
FlaggedPoints(threshold) ==
    IF NumPoints < 2 THEN {}
    ELSE {i \in 2..NumPoints :
             2 * ClaimChange[i] * threshold[2] > TwiceMedian(Tail(ClaimChange)) * threshold[1]}

\* C22: momentum_shifts holds one record per flagged point, in ascending point order,
\* without de-duplication or cap, and each record carries the change magnitude and the
\* two momentum values of its own point
C22_OneShiftRecordPerFlaggedPoint ==
    KeyMomentsReturned =>
        LET shifts == key_moments.momentum_shifts
        IN  /\ Len(shifts) = Cardinality(FlaggedPoints(key_moments.threshold))
            /\ \A k \in 1..(Len(shifts) - 1) : shifts[k].point_number < shifts[k + 1].point_number
            /\ \A k \in 1..Len(shifts) :
                   \E i \in FlaggedPoints(key_moments.threshold) :
                       /\ shifts[k].point_number = match_data.df.rows[i].PointNumber
                       /\ FEq(shifts[k].momentum_change, F(ClaimChange[i]))
                       /\ FEq(shifts[k].p1_momentum, F(P1At(i)))
                       /\ FEq(shifts[k].p2_momentum, F(P2At(i)))

\* three shifts of which two have the same change and the same momentum values
C22_Witness ==
    /\ KeyMomentsReturned
    /\ Len(key_moments.momentum_shifts) = 3
    /\ \E j, k \in 1..3 :
           /\ j < k
           /\ key_moments.momentum_shifts[j].momentum_change
                  = key_moments.momentum_shifts[k].momentum_change
           /\ key_moments.momentum_shifts[j].p1_momentum
                  = key_moments.momentum_shifts[k].p1_momentum
           /\ key_moments.momentum_shifts[j].p2_momentum
                  = key_moments.momentum_shifts[k].p2_momentum

\* a second call of the same operation with the same argument on an equal frame
SameFrameCall ==
    /\ frame_result.status = "returned"
    /\ frame_result'.op = frame_result.op
    /\ frame_result'.argument = frame_result.argument
    /\ frame_result'.input = frame_result.input

C24_EmptyExtremaAreZero ==
    (StatsReturned /\ NumPoints = 0) =>
        /\ FEq(match_data.stats.p1_max_momentum, F(0))
        /\ FEq(match_data.stats.p2_max_momentum, F(0))
        /\ FEq(match_data.stats.p1_min_momentum, F(0))
        /\ FEq(match_data.stats.p2_min_momentum, F(0))

\* C25: the number of momentum_shifts found with threshold 1.0 equals momentum_swings
C25_ShiftsAtOneEqualSwings ==
    (KeyMomentsReturned /\ FEq(key_moments.threshold, F(1))) =>
        Len(key_moments.momentum_shifts) = match_data.stats.momentum_swings

\* C26: momentum_swings is at most floor(n/2) for n points, and the first point is
\* neither counted as a swing nor emitted as a momentum shift, whatever the threshold
C26_SwingsAtMostHalfFirstPointOut ==
    StatsReturned =>
        /\ match_data.stats.momentum_swings <= NumPoints \div 2
        /\ NumPoints >= 1 =>
               match_data.stats.momentum_swings =
                   Cardinality({i \in 2..NumPoints :
                                   2 * ClaimChange[i] > TwiceMedian(ClaimChange)})
        /\ (key_moments.status = "returned" /\ NumPoints >= 1) =>
               match_data.df.rows[1].PointNumber \notin ShiftPoints(key_moments)

\* four points that open with a lead, half of them swings, with a shift emitted
C26_Witness ==
    /\ KeyMomentsReturned
    /\ NumPoints = MaxPoints
    /\ P1At(1) - P2At(1) >= 4
    /\ match_data.stats.momentum_swings = NumPoints \div 2
    /\ key_moments.momentum_shifts # <<>>

\* C27: after any downloads and cleanups, every points_file and matches_file that is
\* not None lies inside the current temp_dir
C27_FilesInsideCurrentTempDir ==
    /\ analyzer.points_file # NoFile => analyzer.points_file.dir = analyzer.temp_dir
    /\ analyzer.matches_file # NoFile => analyzer.matches_file.dir = analyzer.temp_dir

CalledNow(op) == analyzer_result'.calls # analyzer_result.calls /\ analyzer_result'.op = op

\* C30: find_match_id and create_match_dataframe return None without raising when no
\* download was called since construction or the last cleanup_files; cleanup_files
\* leaves temp_dir, points_file and matches_file None and a second cleanup_files in a
\* row changes nothing; a download with an unsupported year raises ValueError and
\* changes no field
C30_AnalyzerCallsAreSafe ==
    [][/\ ((CalledNow("find_match_id") \/ CalledNow("create_match_dataframe"))
               /\ analyzer_result.fresh) =>
              (analyzer_result'.status = "returned" /\ analyzer_result'.value = "None")
       /\ CalledNow("cleanup_files") =>
              (/\ analyzer_result'.status = "returned"
               /\ analyzer'.temp_dir = NoDir
               /\ analyzer'.points_file = NoFile
               /\ analyzer'.matches_file = NoFile)
       /\ (CalledNow("cleanup_files") /\ analyzer_result.op = "cleanup_files") =>
              (analyzer' = analyzer /\ disk' = disk)
       /\ (CalledNow("download_tournament_data")
               /\ ~(2011 <= analyzer_result'.argument /\ analyzer_result'.argument <= 2024)) =>
              (/\ analyzer_result'.status = "raised"
               /\ analyzer_result'.value = "ValueError"
               /\ analyzer' = analyzer
               /\ disk' = disk)]_vars

\* a cleanup after a full download, the directory gone and the three fields None
C30_Witness ==
    /\ analyzer_result.op = "cleanup_files"
    /\ disk.made >= 1
    /\ disk.dirs = {}
    /\ analyzer = NewAnalyzer

RunEnded == pc = "idle" /\ run.outcome # "none"

\* C28: a run_analysis that created a temporary directory calls cleanup_files before
\* it ends on every path, so no directory an analysis created outlives it
C28_NoTempDirOutlivesRun ==
    RunEnded => (run.created = NoDir \/ run.created \notin disk.dirs)

FailedOutcomes == {"invalid", "download_failed", "no_match", "load_failed", "exception"}

\* C29: analysis_complete implies that match_data and key_moments are not None, and a
\* run_analysis that fails at any step leaves match_data, key_moments and
\* analysis_complete as they were before the call
C29_SessionResultsStoredTogether ==
    /\ session.analysis_complete =>
           (session.match_data # None /\ session.key_moments # None)
    /\ (RunEnded /\ run.outcome \in FailedOutcomes) => session = run.before

\* a run that fails in processing after a complete analysis, whose results remain
C29_Witness ==
    /\ RunEnded
    /\ run.outcome = "exception"
    /\ run.df = "null_elapsed"
    /\ session.analysis_complete
    /\ session = run.before

====
